---- MODULE Spec2Model ----
(***************************************************************************)
(* A model of the two table builders of ssam-ew:                           *)
(*   Magma  (magma.py)   - the Event Table builder and its plot            *)
(*   SsamEW (ssam_ew.py) - the Spectral Table builder                      *)
(* Each constructor is modelled step by step, one action per call it       *)
(* makes, with pc_magma / pc_ssam holding the position inside __init__.    *)
(***************************************************************************)
EXTENDS Integers, Sequences, FiniteSets, TLC

VARIABLES
    pc_magma,            \* position inside Magma.__init__ / Magma.plot
    now,                 \* what datetime.now() returned: [year, month, day, hour]
    start_date,          \* self.start_date
    end_date,            \* self.end_date
    earthquake_events,   \* the earthquake_events argument of __init__
    self_earthquake_events, \* self.earthquake_events, <<>> while unset, else <<list>>
    requests_issued,     \* number of calls of requests.request
    json,                \* self.json, <<>> while unset, else <<response>>
    df,                  \* self.df of Magma, <<>> while unset, else <<frame>>
    events_not_recorded, \* self.events_not_recorded
    csv_written,         \* TRUE once df.to_csv ran
    warning_printed,     \* TRUE once the "There is no event(s)" line was printed
    error,               \* the exception that ended the call, <<>> if none
    pc_ssam,             \* position inside SsamEW.__init__
    csv_files,           \* self.csv_files: one frame (sequence of rows) per archive entry
    ssam_sorted,         \* get_df's local df after sort_values, <<>> while unset, else <<frame>>
    ssam_df,             \* self.df of SsamEW, <<>> while unset, else <<frame>>
    ssam_csv_written,    \* TRUE once SsamEW's df.to_csv ran
    ssam_error           \* the exception that ended SsamEW.__init__, <<>> if none

magma_vars == <<pc_magma, now, start_date, end_date, earthquake_events,
                self_earthquake_events, requests_issued, json, df, events_not_recorded, csv_written,
                warning_printed, error>>
ssam_vars == <<pc_ssam, csv_files, ssam_sorted, ssam_df, ssam_csv_written,
               ssam_error>>
vars == <<magma_vars, ssam_vars>>

(***************************************************************************)
(* Bounds of the model.                                                    *)
(***************************************************************************)
MaxRows == 2         \* records in one response
MaxLines == 3        \* lines in one archive, all entries together

(***************************************************************************)
(* Magma: static tables.                                                   *)
(***************************************************************************)
\* Magma.colors: the keys of the colour catalogue
colors ==
    {"Letusan/Erupsi", "Awan Panas Letusan", "Guguran", "Awan Panas Guguran",
     "Hembusan", "Tremor Non-Harmonik", "Tornillo", "Low Frequency",
     "Hybrid/Fase Banyak", "Vulkanik Dangkal", "Vulkanik Dalam",
     "Very Long Period", "Tektonik Lokal", "Terasa", "Tektonik Jauh",
     "Double Event", "Getaran Banjir", "Harmonik", "Tremor Menerus"}

\* the columns= mapping of df.rename in get_df
RenameMap ==
    [x \in {"gempa.letusan_erupsi", "gempa.awan_panas_letusan",
            "gempa.awan_panas_guguran", "gempa.guguran", "gempa.hembusan",
            "gempa.harmonik", "gempa.tremor_non_harmonik", "gempa.tornillo",
            "gempa.low_frequency", "gempa.hybrid_fase_banyak",
            "gempa.vulkanik_dangkal", "gempa.vulkanik_dalam",
            "gempa.very_long_period", "gempa.tektonik_lokal", "gempa.terasa",
            "gempa.tektonik_jauh", "gempa.double_event",
            "gempa.getaran_banjir", "gempa.deep_tremor",
            "gempa.tremor_menerus"} |->
        CASE x = "gempa.letusan_erupsi" -> "Letusan/Erupsi"
          [] x = "gempa.awan_panas_letusan" -> "Awan Panas Letusan"
          [] x = "gempa.awan_panas_guguran" -> "Awan Panas Guguran"
          [] x = "gempa.guguran" -> "Guguran"
          [] x = "gempa.hembusan" -> "Hembusan"
          [] x = "gempa.harmonik" -> "Harmonik"
          [] x = "gempa.tremor_non_harmonik" -> "Tremor-Non Harmonik"
          [] x = "gempa.tornillo" -> "Tornillo"
          [] x = "gempa.low_frequency" -> "Low Frequency"
          [] x = "gempa.hybrid_fase_banyak" -> "Hybrid/Fase Banyak"
          [] x = "gempa.vulkanik_dangkal" -> "Vulkanik Dangkal"
          [] x = "gempa.vulkanik_dalam" -> "Vulkanik Dalam"
          [] x = "gempa.very_long_period" -> "Very Long Period"
          [] x = "gempa.tektonik_lokal" -> "Tektonik Lokal"
          [] x = "gempa.terasa" -> "Terasa"
          [] x = "gempa.tektonik_jauh" -> "Tektonik Jauh"
          [] x = "gempa.double_event" -> "Double Event"
          [] x = "gempa.getaran_banjir" -> "Getaran Banjir"
          [] x = "gempa.deep_tremor" -> "Deep Tremor"
          [] x = "gempa.tremor_menerus" -> "Tremor Menerus"]

\* df.rename(columns=...): a label outside the mapping is left as it is
Rename(c) == IF c \in DOMAIN RenameMap THEN RenameMap[c] ELSE c

\* a slip of the list: its last code left out
AllowedEvents_WithoutLast ==
    {"*", "lts", "apl", "apg", "gug", "hbs", "hrm", "tre",
     "tor", "lof", "hyb", "vtb", "vta", "vlp", "tel", "trs",
     "tej", "dev", "gtb", "dpt"}

\* the list validate_earthquake_events tests membership in
AllowedEvents ==
    {"*", "lts", "apl", "apg", "gug", "hbs", "hrm", "tre",
     "tor", "lof", "hyb", "vtb", "vta", "vlp", "tel", "trs",
     "tej", "dev", "gtb", "dpt", "mtr"}

(***************************************************************************)
(* Magma: inputs.                                                          *)
(***************************************************************************)
\* calendar dates "%Y-%m-%d", held by their three fields
DateStrings ==
    {[year |-> 2024, month |-> 1, day |-> 2],
     [year |-> 2024, month |-> 2, day |-> 1],
     [year |-> 2024, month |-> 2, day |-> 2],
     [year |-> 2025, month |-> 1, day |-> 1]}

Hours == {0, 13}

Clock == {[year |-> d.year, month |-> d.month, day |-> d.day, hour |-> h] :
             d \in DateStrings, h \in Hours}

\* short codes a caller may pass: '*', twenty event codes and two strings
\* that are no event code
EventCodes ==
    {"*", "lts", "apl", "apg", "gug", "hbs", "hrm", "tre", "tor", "lof", "hyb",
     "vtb", "vta", "vlp", "tel", "trs", "tej", "dev", "gtb", "dpt", "mtr",
     "xyz", "all"}

\* the earthquake_events argument: None, one string, or a list of strings
EventArgs ==
    {[kind |-> "none", val |-> <<>>]}
    \cup {[kind |-> "str", val |-> <<c>>] : c \in EventCodes}
    \cup {[kind |-> "list", val |-> l] :
             l \in {<<>>, <<"*">>, <<"lts", "apl">>, <<"hrm", "xyz">>,
                    <<"all", "gug">>}}

\* event-type fields of the records of a response
ResponseFields == {"gempa.hembusan", "gempa.harmonik", "gempa.tremor_non_harmonik"}

Counts == {0, 2}

Records == [ResponseFields -> Counts]

RecordSeqs == UNION {[1..n -> Records] : n \in 0..MaxRows}

\* what requests.request(...).json() can do: raise, or return a JSON body
\* without 'data', or one with 'data' (a list of records; meta tells whether
\* the records carry the availability / visual.* fields)
Responses ==
    {[kind |-> "exception", has_data |-> FALSE, meta |-> FALSE, data |-> <<>>],
     [kind |-> "json", has_data |-> FALSE, meta |-> FALSE, data |-> <<>>]}
    \cup {[kind |-> "json", has_data |-> TRUE, meta |-> m, data |-> d] :
             m \in BOOLEAN, d \in RecordSeqs \ {<<>>}}
    \cup {[kind |-> "json", has_data |-> TRUE, meta |-> FALSE, data |-> <<>>]}

(***************************************************************************)
(* Magma: pure helpers.                                                    *)
(***************************************************************************)
\* datetime.strptime(s, "%Y-%m-%d"): midnight of that day
strptime(s) == [year |-> s.year, month |-> s.month, day |-> s.day, hour |-> 0]

\* datetime.__gt__: field by field, most significant first
DatetimeGreater(a, b) ==
    \/ a.year > b.year
    \/ a.year = b.year /\ a.month > b.month
    \/ a.year = b.year /\ a.month = b.month /\ a.day > b.day
    \/ a.year = b.year /\ a.month = b.month /\ a.day = b.day /\ a.hour > b.hour

\* a slip of line 129: >= for >
RangeInverted_OrEqual(s, e) == ~DatetimeGreater(strptime(e), strptime(s))

\* line 129: start_date_object > end_date_object
RangeInverted(s, e) == DatetimeGreater(strptime(s), strptime(e))

\* line 132: (end_date_object > datetime.now()) or (start_date_object >
\* datetime.now()); the clock is read twice, and the second reading decides
\* nothing: past line 129 start <= end, so start > a later reading makes
\* end > the earlier one
InFuture(s, e, n) ==
    DatetimeGreater(strptime(e), n) \/ DatetimeGreater(strptime(s), n)

\* lines 143-147: None -> ['*'], str -> [str]
AsList(arg) == IF arg.kind = "none" THEN <<"*">> ELSE arg.val

\* lines 149-155: TRUE iff the loop raises
EventsRejected(l) == \E i \in 1..Len(l) : l[i] \notin AllowedEvents

\* json.dumps({...}) of get_json_response
Payload(s, e, ev) == [start_date |-> s, end_date |-> e, gempa |-> ev]

RECURSIVE ColumnSum(_, _)
\* df.sum()[c]
ColumnSum(rows, c) ==
    IF rows = <<>> THEN 0 ELSE rows[1][c] + ColumnSum(Tail(rows), c)

\* a slip of df.sum() == 0: the columns with a zero anywhere
ZeroSumColumns_AnyZero(frame) ==
    {c \in frame.columns : \E i \in 1..Len(frame.rows) : frame.rows[i][c] = 0}

\* df.columns[df.sum() == 0]
ZeroSumColumns(frame) ==
    {c \in frame.columns : ColumnSum(frame.rows, c) = 0}

\* df.drop(columns=labels)
DropColumns(frame, labels) ==
    [columns |-> frame.columns \ labels,
     rows |-> [i \in 1..Len(frame.rows) |->
                  [c \in frame.columns \ labels |-> frame.rows[i][c]]]]

\* df.rename(columns=RenameMap)
RenameColumns(frame) ==
    [columns |-> {Rename(c) : c \in frame.columns},
     rows |-> [i \in 1..Len(frame.rows) |->
                  [n \in {Rename(c) : c \in frame.columns} |->
                      frame.rows[i][CHOOSE c \in frame.columns : Rename(c) = n]]]]

\* pd.json_normalize(json['data']) without the availability / visual.* and
\* date columns: no record, no column
Normalize(data) ==
    [columns |-> IF data = <<>> THEN {} ELSE ResponseFields, rows |-> data]

\* get_df after the metadata drop: lines 82-109
BuildTable(data) ==
    RenameColumns(DropColumns(Normalize(data), ZeroSumColumns(Normalize(data))))

\* DataFrame.empty: some axis has length 0
Empty(frame) == frame.rows = <<>> \/ frame.columns = {}

\* the codes the message of validate_earthquake_events lists (lines 153-155)
MessageEvents ==
    {"*", "lts", "apl", "apg", "gug", "hbs", "hrm",
     "tre", "tor", "lof", "hyb", "vtb", "vta", "vlp", "tel", "trs", "tej", "dev", "gtb",
     "dpt", "mtr"}

\* an exception: its type, the function that raised it, the request payload
\* its message carries (<<>> if none) and the event codes its message lists
Raised(type, by, payload, names) ==
    <<[type |-> type, raised_by |-> by, payload |-> payload, names |-> names]>>

(***************************************************************************)
(* Magma: the steps of __init__ and plot.                                  *)
(***************************************************************************)
\* lines 37-42: a caller constructs Magma(token, volcano_code, start, end, events)
MagmaNew ==
    /\ pc_magma = "idle"
    /\ \E s \in DateStrings, e \in DateStrings, ev \in EventArgs :
          /\ start_date' = s
          /\ end_date' = e
          /\ earthquake_events' = ev
    /\ pc_magma' = "validate_earthquake_events"
    /\ self_earthquake_events' = <<>>
    /\ requests_issued' = 0
    /\ json' = <<>>
    /\ df' = <<>>
    /\ events_not_recorded' = {}
    /\ csv_written' = FALSE
    /\ warning_printed' = FALSE
    /\ error' = <<>>
    /\ UNCHANGED <<now, ssam_vars>>

\* line 44 and lines 142-157
validate_earthquake_events ==
    /\ pc_magma = "validate_earthquake_events"
    /\ IF EventsRejected(AsList(earthquake_events))
       THEN /\ error' = Raised("ValueError", "validate_earthquake_events", <<>>,
                             MessageEvents)
            /\ pc_magma' = "failed"
            /\ UNCHANGED self_earthquake_events
       ELSE /\ self_earthquake_events' = <<AsList(earthquake_events)>>
            /\ pc_magma' = "get_json_response"
            /\ UNCHANGED error
    /\ UNCHANGED <<now, start_date, end_date, earthquake_events, requests_issued,
                   json, df, events_not_recorded, csv_written, warning_printed,
                   ssam_vars>>

\* line 46 and lines 111-140
get_json_response ==
    /\ pc_magma = "get_json_response"
    /\ now' \in Clock
    /\ IF RangeInverted(start_date, end_date) \/ InFuture(start_date, end_date, now')
       THEN /\ error' = Raised("ValueError", "get_json_response", <<>>, {})
            /\ pc_magma' = "failed"
            /\ UNCHANGED <<requests_issued, json>>
       ELSE /\ requests_issued' = requests_issued + 1
            /\ \E r \in Responses :
                  IF r.kind = "exception"
                  THEN /\ error' = Raised("ValueError", "get_json_response",
                                          <<Payload(start_date, end_date,
                                                    self_earthquake_events[1])>>,
                                          {})
                       /\ pc_magma' = "failed"
                       /\ UNCHANGED json
                  ELSE /\ json' = <<r>>
                       /\ pc_magma' = "get_df"
                       /\ UNCHANGED error
    /\ UNCHANGED <<start_date, end_date, earthquake_events,
                   self_earthquake_events, df,
                   events_not_recorded, csv_written, warning_printed, ssam_vars>>

\* line 47 and lines 58-109
get_df ==
    /\ pc_magma = "get_df"
    /\ IF ~json[1].has_data
       THEN \* json['data'] of a body without that key
            /\ error' = Raised("KeyError", "get_df", <<>>, {})
            /\ pc_magma' = "failed"
            /\ UNCHANGED df
       ELSE IF json[1].data = <<>> \/ ~json[1].meta
       THEN \* df.drop(columns=[...]) of labels the frame does not have
            /\ error' = Raised("KeyError", "get_df", <<>>, {})
            /\ pc_magma' = "failed"
            /\ UNCHANGED df
       ELSE /\ df' = <<BuildTable(json[1].data)>>
            /\ pc_magma' = "export"
            /\ UNCHANGED error
    /\ UNCHANGED <<now, start_date, end_date, earthquake_events,
                   self_earthquake_events, requests_issued,
                   json, events_not_recorded, csv_written, warning_printed,
                   ssam_vars>>

\* lines 48-56
export ==
    /\ pc_magma = "export"
    /\ events_not_recorded' = ZeroSumColumns(df[1])
    /\ IF ~Empty(df[1])
       THEN /\ csv_written' = TRUE
            /\ pc_magma' = "done"
            /\ UNCHANGED <<warning_printed, error>>
       ELSE /\ warning_printed' = TRUE
            /\ error' = Raised("EmptyDataError", "__init__", <<>>, {})
            /\ pc_magma' = "failed"
            /\ UNCHANGED csv_written
    /\ UNCHANGED <<now, start_date, end_date, earthquake_events,
                   self_earthquake_events, requests_issued,
                   json, df, ssam_vars>>

\* lines 168-205: self.colors[column_name] for every column of self.df
plot ==
    /\ pc_magma = "done"
    /\ IF df[1].columns \subseteq colors
       THEN /\ pc_magma' = "plotted"
            /\ UNCHANGED error
       ELSE /\ error' = Raised("KeyError", "plot", <<>>, {})
            /\ pc_magma' = "failed"
    /\ UNCHANGED <<now, start_date, end_date, earthquake_events,
                   self_earthquake_events, requests_issued,
                   json, df, events_not_recorded, csv_written, warning_printed,
                   ssam_vars>>

(***************************************************************************)
(* SsamEW: inputs.                                                         *)
(***************************************************************************)
\* column 0 of a line, "%d-%b-%Y", held by its three fields
SsamDates ==
    {[day |-> 2, mon |-> 1, year |-> 2024],
     [day |-> 1, mon |-> 2, year |-> 2024]}

\* column 1 of a line, "%H:%M"
SsamTimes == {[hh |-> 0, mm |-> 10], [hh |-> 0, mm |-> 0]}

\* an amplitude column as read_csv delivers it: a number, or nan for a
\* field the line lacks
Amplitudes == {"1.5", "2.5", "nan"}

\* one line of an archive entry as read_csv parses it (one amplitude column)
Lines == [date : SsamDates, time : SsamTimes, amplitude : Amplitudes]

LineSeqs == UNION {[1..n -> Lines] : n \in 1..MaxLines}

\* the entries of an archive whose lines are l, the first k of them in the
\* first entry and the rest in a second one; every entry has at least one line
Entries(l, k) ==
    IF k = Len(l) THEN <<l>> ELSE <<SubSeq(l, 1, k), SubSeq(l, k + 1, Len(l))>>

(***************************************************************************)
(* SsamEW: pure helpers.                                                   *)
(***************************************************************************)
RECURSIVE Concat(_)
\* pd.concat(self.csv_files, ignore_index=True)
Concat(files) ==
    IF files = <<>> THEN <<>> ELSE files[1] \o Concat(Tail(files))

\* pd.to_datetime(df[0] + ' ' + df[1], format='%d-%b-%Y %H:%M'), in minutes
ToDatetime(date, time) ==
    (((date.year * 12 + date.mon) * 31 + date.day) * 24 + time.hh) * 60 + time.mm

\* lines 75-78: the datetime index replaces columns 0 and 1
Indexed(rows) ==
    [i \in 1..Len(rows) |->
        [datetime |-> ToDatetime(rows[i].date, rows[i].time),
         amplitude |-> rows[i].amplitude]]

\* line 79: df.dropna() looks at the columns, not at the index
DropNa(rows) == SelectSeq(rows, LAMBDA r : r.amplitude /= "nan")

\* the orders of 1..n
Orders(n) == {p \in [1..n -> 1..n] : \A i, j \in 1..n : i /= j => p[i] /= p[j]}

\* a slip of line 80: the sorted frame is not the one kept
SortValues_NotSorted(rows) == {rows}

\* line 80: df.sort_values(by=['datetime']) with the default kind, quicksort,
\* which is not stable: every arrangement of the rows in ascending datetime
SortValues(rows) ==
    {[i \in 1..Len(rows) |-> rows[p[i]]] : p \in
        {q \in Orders(Len(rows)) :
            \A i \in 1..(Len(rows) - 1) :
                rows[q[i]].datetime <= rows[q[i + 1]].datetime}}

\* the positions line 81 keeps: drop_duplicates(keep='last') compares the
\* columns of the frame, and the index is not a column
KeptPositions(rows) ==
    {i \in 1..Len(rows) :
        \A j \in (i + 1)..Len(rows) : rows[j].amplitude /= rows[i].amplitude}

RECURSIVE Pick(_, _, _)
\* the rows at the positions of keep, from position i on, in their order
Pick(rows, keep, i) ==
    IF i > Len(rows) THEN <<>>
    ELSE (IF i \in keep THEN <<rows[i]>> ELSE <<>>) \o Pick(rows, keep, i + 1)

\* line 81
DropDuplicates(rows) == Pick(rows, KeptPositions(rows), 1)

SsamRaised(type, by) == <<[type |-> type, raised_by |-> by]>>

(***************************************************************************)
(* SsamEW: the steps of __init__.                                          *)
(***************************************************************************)
\* lines 15-30: a caller constructs SsamEW(zip_filename, title); the matching
\* entries of the archive are read: none, one, or two
SsamNew ==
    /\ pc_ssam = "idle"
    /\ \/ csv_files' = <<>>
       \/ \E l \in LineSeqs, k \in 1..MaxLines :
             /\ k <= Len(l)
             /\ csv_files' = Entries(l, k)
    /\ pc_ssam' = "get_df"
    /\ UNCHANGED <<ssam_sorted, ssam_df, ssam_csv_written, ssam_error, magma_vars>>

\* line 32 and lines 72-83
ssam_get_df ==
    /\ pc_ssam = "get_df"
    /\ IF csv_files = <<>>
       THEN \* pd.concat of no frame
            /\ ssam_error' = SsamRaised("ValueError", "get_df")
            /\ pc_ssam' = "failed"
            /\ UNCHANGED <<ssam_sorted, ssam_df>>
       ELSE /\ \E sorted \in SortValues(DropNa(Indexed(Concat(csv_files)))) :
                  /\ ssam_sorted' = <<sorted>>
                  /\ ssam_df' = <<DropDuplicates(sorted)>>
            /\ pc_ssam' = "export"
            /\ UNCHANGED ssam_error
    /\ UNCHANGED <<csv_files, ssam_csv_written, magma_vars>>

\* lines 34-54, start_date and end_date left at None
ssam_export ==
    /\ pc_ssam = "export"
    /\ IF ssam_df[1] = <<>>
       THEN \* self.df.index[0] of an empty frame
            /\ ssam_error' = SsamRaised("IndexError", "__init__")
            /\ pc_ssam' = "failed"
            /\ UNCHANGED ssam_csv_written
       ELSE /\ ssam_csv_written' = TRUE
            /\ pc_ssam' = "done"
            /\ UNCHANGED ssam_error
    /\ UNCHANGED <<csv_files, ssam_sorted, ssam_df, magma_vars>>

MagmaInit ==
    /\ pc_magma = "idle"
    /\ now = [year |-> 2024, month |-> 1, day |-> 2, hour |-> 0]
    /\ start_date = [year |-> 2024, month |-> 1, day |-> 2]
    /\ end_date = start_date
    /\ earthquake_events = [kind |-> "none", val |-> <<>>]
    /\ self_earthquake_events = <<>>
    /\ requests_issued = 0
    /\ json = <<>>
    /\ df = <<>>
    /\ events_not_recorded = {}
    /\ csv_written = FALSE
    /\ warning_printed = FALSE
    /\ error = <<>>

SsamInit ==
    /\ pc_ssam = "idle"
    /\ csv_files = <<>>
    /\ ssam_sorted = <<>>
    /\ ssam_df = <<>>
    /\ ssam_csv_written = FALSE
    /\ ssam_error = <<>>

Init == MagmaInit /\ SsamInit

MagmaNext ==
    \/ MagmaNew
    \/ validate_earthquake_events
    \/ get_json_response
    \/ get_df
    \/ export
    \/ plot

SpecMagma == Init /\ [][MagmaNext]_vars

SsamNext ==
    \/ SsamNew
    \/ ssam_get_df
    \/ ssam_export

SpecSsam == Init /\ [][SsamNext]_vars

(***************************************************************************)
(* Properties of the Event Table builder, checked under SpecMagma.         *)
(***************************************************************************)
\* the rank of a calendar date (or of the date of a clock reading): a later
\* date has a larger rank
DayNumber(d) == (d.year * 12 + d.month) * 31 + d.day

\* __init__ has ended, by returning or by raising
ConstructionEnded == pc_magma \in {"done", "failed", "plotted"}

\* get_json_response has run
DateChecked ==
    \/ pc_magma \in {"get_df", "export", "done", "plotted"}
    \/ pc_magma = "failed" /\ error[1].raised_by /= "validate_earthquake_events"

\* start_date > end_date, or one of them later than the current date
BadDates ==
    \/ DayNumber(start_date) > DayNumber(end_date)
    \/ DayNumber(start_date) > DayNumber(now)
    \/ DayNumber(end_date) > DayNumber(now)

\* C1: once the dates were checked: if start_date > end_date, or start_date
\* or end_date is later than the current date, construction has failed with
\* a ValueError raised before any request was issued, no table was built and
\* no CSV was written; otherwise the date validation did not fail (the one
\* request was issued, and a ValueError of get_json_response, if any, is the
\* request's, carrying the payload). A construction that ended with
\* start_date > end_date failed with a ValueError and without a request, also
\* when the event filter was rejected first.
C1_DateValidation ==
    /\ DateChecked =>
          IF BadDates
          THEN /\ pc_magma = "failed"
               /\ error[1].type = "ValueError"
               /\ error[1].raised_by = "get_json_response"
               /\ error[1].payload = <<>>
               /\ requests_issued = 0
               /\ json = <<>>
               /\ df = <<>>
               /\ ~csv_written
          ELSE /\ requests_issued = 1
               /\ (pc_magma = "failed" /\ error[1].raised_by = "get_json_response")
                      => error[1].payload /= <<>>
    /\ (ConstructionEnded /\ DayNumber(start_date) > DayNumber(end_date)) =>
          /\ pc_magma = "failed"
          /\ error[1].type = "ValueError"
          /\ requests_issued = 0
          /\ df = <<>>
          /\ ~csv_written

\* a construction that failed on an end_date later than the current date,
\* with start_date <= end_date
C1_Witness ==
    /\ pc_magma = "failed"
    /\ error[1].raised_by = "get_json_response"
    /\ requests_issued = 0
    /\ DayNumber(start_date) <= DayNumber(end_date)
    /\ DayNumber(end_date) > DayNumber(now)
    /\ now.hour > 0

\* the event-type fields of the response whose counts sum to zero
ZeroFields == {f \in ResponseFields : ColumnSum(json[1].data, f) = 0}

\* C2: in every table get_df returned, an event-type column of the response
\* whose counts sum to zero is absent (under its raw and its canonical name)
\* and one with a non-zero sum is present under its canonical name.
C2_ZeroColumnsAbsent ==
    df /= <<>> =>
        \A f \in ResponseFields :
            IF f \in ZeroFields
            THEN RenameMap[f] \notin df[1].columns /\ f \notin df[1].columns
            ELSE RenameMap[f] \in df[1].columns

\* a table of two records or more, built from a response with an all-zero
\* column and a column that is zero in one record and not in another
C2_Witness ==
    /\ df /= <<>>
    /\ Len(json[1].data) >= 2
    /\ ZeroFields /= {}
    /\ \E f \in ResponseFields \ ZeroFields :
          \E i \in 1..Len(json[1].data) : json[1].data[i][f] = 0

\* validate_earthquake_events has run
EventsChecked == pc_magma \notin {"idle", "validate_earthquake_events"}

\* the list the argument stands for: None is ['*'], a string its singleton
ExpectedList ==
    IF earthquake_events.kind = "none" THEN <<"*">>
    ELSE IF earthquake_events.kind = "str" THEN <<earthquake_events.val[1]>>
    ELSE earthquake_events.val

\* the single strings validate_earthquake_events accepts
AcceptedSingles ==
    {c \in EventCodes : ~EventsRejected(AsList([kind |-> "str", val |-> <<c>>]))}

\* the filter contract with an allowed set of n members
EventFilterContract(n) ==
    EventsChecked =>
        /\ Cardinality(AcceptedSingles) = n
        /\ "*" \in AcceptedSingles
        /\ IF \A i \in 1..Len(ExpectedList) : ExpectedList[i] \in AcceptedSingles
           THEN self_earthquake_events = <<ExpectedList>>
           ELSE /\ pc_magma = "failed"
                /\ error[1].type = "ValueError"
                /\ error[1].raised_by = "validate_earthquake_events"
                /\ error[1].names = AcceptedSingles
                /\ self_earthquake_events = <<>>
                /\ requests_issued = 0
                /\ json = <<>>
                /\ df = <<>>
                /\ ~csv_written

\* C5 as stated: None becomes ['*'], a string its singleton list, the list
\* is returned unchanged iff all its elements are allowed, else a ValueError
\* naming the allowed set stops construction before any request or export;
\* and the allowed set has exactly 20 members, '*' among them.
C5_Original == EventFilterContract(20)

\* C5 amended: the same, with an allowed set of exactly 21 members.
C5_EventFilter == EventFilterContract(21)

\* a two-element list whose first element is allowed and whose second is not
C5_Witness ==
    /\ pc_magma = "failed"
    /\ error[1].raised_by = "validate_earthquake_events"
    /\ earthquake_events.kind = "list"
    /\ Len(earthquake_events.val) = 2
    /\ earthquake_events.val[1] \in AcceptedSingles

\* C6: when the request succeeded and the response carries no record,
\* construction ends with EmptyDataError after the warning, and no CSV is
\* written; the CSV is written iff the table is not empty.
C6_EmptyResult ==
    /\ (ConstructionEnded /\ json /= <<>> /\ json[1].has_data
            /\ json[1].data = <<>>)
          => /\ pc_magma = "failed"
             /\ error[1].type = "EmptyDataError"
             /\ warning_printed
             /\ ~csv_written
    /\ (ConstructionEnded /\ df /= <<>>) => (csv_written <=> ~Empty(df[1]))

\* C7: when the request raised, or its response carries no 'data' field,
\* construction fails with the ValueError of get_json_response, which
\* carries the payload, and no CSV is written.
C7_RequestFailure ==
    (ConstructionEnded /\ requests_issued = 1
        /\ (json = <<>> \/ ~json[1].has_data))
      => /\ pc_magma = "failed"
         /\ error[1].type = "ValueError"
         /\ error[1].raised_by = "get_json_response"
         /\ error[1].payload =
                <<Payload(start_date, end_date, self_earthquake_events[1])>>
         /\ ~csv_written

\* C8: after a successful construction events_not_recorded is the set of the
\* event-type columns of the response whose total count is zero (by their
\* raw or by their canonical names).
C8_EventsNotRecorded ==
    (pc_magma \in {"done", "plotted"})
      => \/ events_not_recorded = ZeroFields
         \/ events_not_recorded = {RenameMap[f] : f \in ZeroFields}

\* C10: every column of a table the builder produced is a key of the colour
\* catalogue, and plot never fails on the colour lookup.
C10_ColorsCoverColumns ==
    /\ pc_magma \in {"done", "plotted"} => df[1].columns \subseteq colors
    /\ ~(pc_magma = "failed" /\ error[1].raised_by = "plot")

(***************************************************************************)
(* Properties of the Spectral Table builder, checked under SpecSsam.       *)
(***************************************************************************)
\* the complete lines of the archive, in the order of concatenation
CompleteRows == DropNa(Indexed(Concat(csv_files)))

\* the positions of the table whose timestamp is t
RowsAt(frame, t) == {i \in 1..Len(frame) : frame[i].datetime = t}

\* C3: no two rows of the table share a timestamp; for every timestamp of a
\* complete input row the table has exactly one row, with the values of the
\* occurrence that sorted last among the rows of that timestamp.
C3_UniqueTimestamps ==
    ssam_df /= <<>> =>
        /\ \A i, j \in 1..Len(ssam_df[1]) :
              i /= j => ssam_df[1][i].datetime /= ssam_df[1][j].datetime
        /\ \A k \in 1..Len(ssam_sorted[1]) :
              LET t == ssam_sorted[1][k].datetime
                  last == CHOOSE m \in RowsAt(ssam_sorted[1], t) :
                              \A n \in RowsAt(ssam_sorted[1], t) : n <= m
              IN /\ Cardinality(RowsAt(ssam_df[1], t)) = 1
                 /\ \A i \in RowsAt(ssam_df[1], t) :
                       ssam_df[1][i].amplitude = ssam_sorted[1][last].amplitude

RECURSIVE IsSubsequence(_, _)
\* a is b with some elements left out
IsSubsequence(a, b) ==
    IF a = <<>> THEN TRUE
    ELSE IF b = <<>> THEN FALSE
    ELSE IF a[1] = b[1] THEN IsSubsequence(Tail(a), Tail(b))
    ELSE IsSubsequence(a, Tail(b))

\* C4: the rows of the table are in non-decreasing timestamp order, and the
\* rows drop_duplicates kept are in the order sort_values left them in.
C4_SortedOrder ==
    ssam_df /= <<>> =>
        /\ \A i \in 1..(Len(ssam_df[1]) - 1) :
              ssam_df[1][i].datetime <= ssam_df[1][i + 1].datetime
        /\ IsSubsequence(ssam_df[1], ssam_sorted[1])

\* a table of two rows or more, from two entries whose lines were not in
\* time order, with a row removed by drop_duplicates
C4_Witness ==
    /\ ssam_df /= <<>>
    /\ Len(csv_files) = 2
    /\ Len(ssam_df[1]) >= 2
    /\ Len(ssam_sorted[1]) > Len(ssam_df[1])
    /\ \E i, j \in 1..Len(CompleteRows) :
          i < j /\ CompleteRows[i].datetime > CompleteRows[j].datetime

\* C9: the timestamp of every input row without a missing value is the
\* timestamp of some row of the table.
C9_NoTimestampLost ==
    ssam_df /= <<>> =>
        \A k \in 1..Len(CompleteRows) :
            RowsAt(ssam_df[1], CompleteRows[k].datetime) /= {}

====
